---- MODULE Spec2Model ----
(***************************************************************************)
(* A model of youtube-playlist-editor: the `add` command of cli.py, the    *)
(* playlist gateway of api.py (get_existing_playlist_video_ids,            *)
(* add_video_to_playlist, verify_playlist_exists) and the URL parser of    *)
(* utils.py (extract_video_id).                                            *)
(*                                                                         *)
(* Text is modelled as TLA+ strings, read character by character with      *)
(* SubSeq; None is the empty string where the code's value is a string,    *)
(* and 0 where it is a page token.                                         *)
(***************************************************************************)
EXTENDS Integers, Sequences, FiniteSets, TLC

(***************************************************************************)
(* Bounds of the model.                                                    *)
(***************************************************************************)
\* The longest input file, in lines.
MaxLines == 3
\* The longest remote playlist, in pages, of a call of
\* get_existing_playlist_video_ids on its own (SpecList).
MaxPages == 2

(***************************************************************************)
(* Program constants.                                                      *)
(***************************************************************************)
MAX_RETRIES == 3
INITIAL_BACKOFF == 1
\* The {11} of every pattern of extract_video_id.
ID_LENGTH == 11

(***************************************************************************)
(* Strings.                                                                *)
(***************************************************************************)
None == ""

CharAt(s, i) == SubSeq(s, i, i)

CharsOf(s) == {CharAt(s, i) : i \in 1..Len(s)}

\* The characters str.strip() removes (the ASCII ones).
Whitespace == {" ", "\t", "\n", "\r", "\f"}

\* str.strip(): the text between the first and the last non-whitespace
\* character, empty when there is none.
strip(s) ==
    LET keep == {i \in 1..Len(s) : CharAt(s, i) \notin Whitespace}
    IN  IF keep = {} THEN ""
        ELSE LET first == CHOOSE i \in keep : \A j \in keep : i <= j
                 last  == CHOOSE i \in keep : \A j \in keep : j <= i
             IN  SubSeq(s, first, last)

\* str.startswith(prefix) from position i (1-based) of s.
StartsWithAt(s, i, prefix) ==
    /\ i + Len(prefix) - 1 <= Len(s)
    /\ SubSeq(s, i, i + Len(prefix) - 1) = prefix

startswith(s, prefix) == StartsWithAt(s, 1, prefix)

\* `needle in haystack` of two strings.
Contains(haystack, needle) ==
    \E i \in 1..(Len(haystack) + 1) : StartsWithAt(haystack, i, needle)

(***************************************************************************)
(* utils.py: extract_video_id.                                             *)
(***************************************************************************)
\* The character class [a-zA-Z0-9_-].
IdChars ==
    CharsOf("abcdefghijklmnopqrstuvwxyzABCDEFGHIJKLMNOPQRSTUVWXYZ0123456789_-")

\* The literal part of each pattern, after the two optional groups, in the
\* order of the list `patterns`.
patterns ==
    << "youtube.com/watch?v=",
       "youtu.be/",
       "youtube.com/embed/",
       "youtube.com/v/",
       "youtube.com/shorts/",
       "youtube.com/live/" >>

\* (?:https?:\/\/)? at position i: the positions the match can continue
\* from, the greedy choice (the group present) first.
AfterScheme(s, i) ==
    (IF StartsWithAt(s, i, "https://") THEN <<i + 8>> ELSE <<>>)
    \o (IF StartsWithAt(s, i, "http://") THEN <<i + 7>> ELSE <<>>)
    \o <<i>>

\* (?:www\.)? at position i, likewise.
AfterWww(s, i) ==
    (IF StartsWithAt(s, i, "www.") THEN <<i + 4>> ELSE <<>>) \o <<i>>

\* literal([a-zA-Z0-9_-]{11}) at position i: the captured group, or None.
CaptureAt(s, i, literal) ==
    LET g == i + Len(literal)
    IN  IF /\ StartsWithAt(s, i, literal)
           /\ g + ID_LENGTH - 1 <= Len(s)
           /\ \A k \in g..(g + ID_LENGTH - 1) : CharAt(s, k) \in IdChars
        THEN SubSeq(s, g, g + ID_LENGTH - 1)
        ELSE None

\* The first non-None element of a sequence of strings, or None.
RECURSIVE FirstFound(_)
FirstFound(seq) ==
    IF seq = <<>> THEN None
    ELSE IF Head(seq) # None THEN Head(seq)
    ELSE FirstFound(Tail(seq))

\* One pattern matched at position i of s (re.match semantics): group(1)
\* of the first alternative of the backtracking search that succeeds.
MatchAt(s, i, literal) ==
    LET sch == AfterScheme(s, i)
        tries == [a \in 1..Len(sch) |->
                    LET www == AfterWww(s, sch[a])
                    IN  FirstFound([b \in 1..Len(www) |->
                                       CaptureAt(s, www[b], literal)])]
    IN  FirstFound(tries)

\* re.search(pattern, url): the match at the leftmost position that has one.
Search(s, literal) ==
    FirstFound([i \in 1..(Len(s) + 1) |-> MatchAt(s, i, literal)])

\* extract_video_id(url): group(1) of the first pattern that is found in
\* url, None when no pattern is.
extract_video_id(url) ==
    FirstFound([p \in 1..Len(patterns) |-> Search(url, patterns[p])])

(***************************************************************************)
(* State.                                                                  *)
(***************************************************************************)
VARIABLES
    pc,                 \* where the run is: "auth", "verify", "fetch",
                        \* "fetched", "loop", "exit"
    exit_code,          \* the process's exit status once pc = "exit", else -1
    playlist,           \* the remote playlist: its pages, each a set of items
    existing_ids,       \* get_existing_playlist_video_ids: existing_ids
    next_page_token,    \* get_existing_playlist_video_ids: next_page_token
    attempt,            \* get_existing_playlist_video_ids: attempt
    trace,              \* the remote requests and sleeps of the call of
                        \* get_existing_playlist_video_ids, in order
    ret,                \* what get_existing_playlist_video_ids returned
    existing_video_ids, \* add: existing_video_ids
    added_count,        \* add: added_count
    skipped_count,      \* add: skipped_count
    duplicate_count,    \* add: duplicate_count
    error_count,        \* add: error_count
    line_num,           \* add: line_num
    lines,              \* the lines of the input file read so far
    inserts,            \* the calls of add_video_to_playlist so far
    stderr,             \* click.echo(..., err=True), in order
    summary,            \* the summary block, once printed
    calls,              \* add: the gateway functions it has called, in order
    call,               \* a gateway function called on its own: the call
    extracted,          \* extract_video_id called on its own: url and result
    auth,               \* get_authenticated_service called on its own
    main                \* the add command of __main__.py: its locals

fetch_vars == <<existing_ids, next_page_token, attempt, trace, ret>>
loop_vars == <<existing_video_ids, added_count, skipped_count,
               duplicate_count, error_count, line_num, lines, inserts,
               summary>>
vars == <<pc, exit_code, playlist, existing_ids, next_page_token, attempt,
          trace, ret, existing_video_ids, added_count, skipped_count,
          duplicate_count, error_count, line_num, lines, inserts, stderr,
          summary, calls, call, extracted, auth, main>>
aux_vars == <<extracted, auth, main>>

(***************************************************************************)
(* The remote service.                                                     *)
(***************************************************************************)
\* The video identifiers of the model: two tokens of [a-zA-Z0-9_-]{11}.
VideoIds == {"dQw4w9WgXcQ", "a-b_c0d1e2f"}

\* An item of a page carries a videoId, or none (None).
Items == VideoIds \cup {None}

\* The statuses an HttpError of the remote service carries in the model.
HttpStatuses == {400, 403, 404, 409, 500, 502, 503, 504}

\* Every playlist of 1..n pages whose items are drawn from `items`.
Playlists(n, items) ==
    UNION {[1..k -> SUBSET items] : k \in 1..n}

\* The page the service returns for pageToken = token (None, here 0, asks
\* for the first page).
PageOf(pl, token) == pl[IF token = 0 THEN 1 ELSE token]

\* The nextPageToken of that response: absent (0) on the last page.
NextTokenOf(pl, token) ==
    LET i == IF token = 0 THEN 1 ELSE token
    IN  IF i < Len(pl) THEN i + 1 ELSE 0

\* The video identifiers the playlist holds.
RemoteVideoIds(pl) == UNION {pl[i] \ {None} : i \in 1..Len(pl)}

\* A successful playlistItems().insert: the video joins the last page.
RemoteInsert(pl, video_id) ==
    [pl EXCEPT ![Len(pl)] = @ \cup {video_id}]

\* A message on the error stream; a warning carries a line number and text.
Echo(msg) == [msg |-> msg, line |-> 0, text |-> ""]
\* Warning numbering the lines from 0.
Warning_ZeroBased(n, text) ==
    [msg |-> "warning", line |-> n - 1, text |-> text]

Warning(n, text) == [msg |-> "warning", line |-> n, text |-> text]

EchoIf(err, msg) == IF msg = None THEN err ELSE Append(err, Echo(msg))

\* A call of a gateway function by add, and whether what it returned is
\* true (a service, True, a set).
Call(fn, value) == [fn |-> fn, value |-> value]

(***************************************************************************)
(* api.py: get_existing_playlist_video_ids.                                *)
(***************************************************************************)
Request(token, result, status) ==
    [ev |-> "request", token |-> token, result |-> result,
     status |-> status, secs |-> 0]

Sleep(secs) ==
    [ev |-> "sleep", token |-> 0, result |-> "", status |-> 0, secs |-> secs]

RECURSIVE Pow2(_)
Pow2(n) == IF n <= 0 THEN 1 ELSE 2 * Pow2(n - 1)

\* wait_time with the exponent off by one: 2 ** attempt.
wait_time_OffByOne(att) == INITIAL_BACKOFF * Pow2(att)

\* wait_time = INITIAL_BACKOFF * (2 ** (attempt - 1))
wait_time(att) == INITIAL_BACKOFF * Pow2(att - 1)

\* e.resp.status in [500, 502, 503, 504]
IsTransient(status) == status \in {500, 502, 503, 504}

\* AddPageIds keeping the identifiers of the last page only.
AddPageIds_Overwrite(ids, page) == {item \in page : item # None}

\* The for loop over response.get("items", []): the items with a videoId
\* join existing_ids.
AddPageIds(ids, page) == ids \cup {item \in page : item # None}

\* AttemptAfterPage with the count of failures starting again at each page.
AttemptAfterPage_Reset(att) == 0

\* attempt after a page was fetched: only the except clauses assign it.
AttemptAfterPage(att) == att

\* One turn of the inner `while True`: a request that succeeds. The last
\* page breaks both loops and the function returns existing_ids.
ListPage ==
    /\ pc = "fetch"
    /\ attempt < MAX_RETRIES
    /\ LET page == PageOf(playlist, next_page_token)
           token == NextTokenOf(playlist, next_page_token)
           ids == AddPageIds(existing_ids, page)
       IN  /\ trace' = Append(trace, Request(next_page_token, "ok", 200))
           /\ existing_ids' = ids
           /\ next_page_token' = token
           /\ IF token = 0
              THEN pc' = "fetched" /\ ret' = ids
              ELSE pc' = "fetch" /\ ret' = ret
    /\ attempt' = AttemptAfterPage(attempt)
    /\ UNCHANGED <<exit_code, playlist, stderr>>
    /\ UNCHANGED loop_vars
    /\ UNCHANGED <<calls, call>>
    /\ UNCHANGED aux_vars

\* TokenAtRetry with the pagination started again: next_page_token = None.
TokenAtRetry_Restart(token) == 0

\* next_page_token when the outer `while attempt < MAX_RETRIES` takes another
\* turn: it is assigned before the loop and by a response only, so a retry
\* asks for the page that failed.
TokenAtRetry(token) == token

\* existing_ids when the outer while takes another turn: it is created
\* before the loop, so it keeps the identifiers of the pages already fetched.
IdsAtRetry(ids) == ids

\* FailureResult giving the identifiers of the pages fetched so far.
FailureResult_Partial(ids) == ids

\* What the call returns when a failure ends it: `return set()`, not
\* existing_ids.
FailureResult(ids) == {}

\* HttpErrorVerdict without `if attempt >= MAX_RETRIES`: a transient
\* failure always sleeps.
HttpErrorVerdict_AlwaysSleep(status, att) ==
    IF status = 404 THEN "return"
    ELSE IF IsTransient(status) THEN "retry"
    ELSE "return"

\* HttpErrorVerdict without the 404 branch: a 404 falls to the final else
\* only after the retries of a transient failure.
HttpErrorVerdict_Retry404(status, att) ==
    IF IsTransient(status) \/ status = 404
    THEN IF att >= MAX_RETRIES THEN "return" ELSE "retry"
    ELSE "return"

\* HttpErrorVerdict retrying every status but 404.
HttpErrorVerdict_RetryAll(status, att) ==
    IF status = 404 THEN "return"
    ELSE IF att >= MAX_RETRIES THEN "return" ELSE "retry"

\* What `except HttpError` does after attempt += 1: "return" (the empty
\* set, with an error echoed) or "retry" (after a sleep).
HttpErrorVerdict(status, att) ==
    IF status = 404 THEN "return"
    ELSE IF IsTransient(status)
         THEN IF att >= MAX_RETRIES THEN "return" ELSE "retry"
         ELSE "return"

\* The message `except HttpError` echoes when it returns.
HttpErrorEcho(status) ==
    IF status = 404 THEN "list: playlist inaccessible"
    ELSE IF IsTransient(status) THEN "list: API server errors"
    ELSE "list: API error"

\* A request that raises HttpError.
ListHttpError ==
    /\ pc = "fetch"
    /\ attempt < MAX_RETRIES
    /\ \E status \in HttpStatuses :
         LET att == attempt + 1
             req == Append(trace, Request(next_page_token, "HttpError", status))
         IN  /\ attempt' = att
             /\ IF HttpErrorVerdict(status, att) = "return"
                THEN /\ trace' = req
                     /\ stderr' = Append(stderr, Echo(HttpErrorEcho(status)))
                     /\ ret' = FailureResult(existing_ids)
                     /\ pc' = "fetched"
                     /\ UNCHANGED <<existing_ids, next_page_token>>
                ELSE /\ trace' = Append(req, Sleep(wait_time(att)))
                     /\ next_page_token' = TokenAtRetry(next_page_token)
                     /\ existing_ids' = IdsAtRetry(existing_ids)
                     /\ UNCHANGED <<stderr, ret>>
                     /\ pc' = "fetch"
    /\ UNCHANGED <<exit_code, playlist>>
    /\ UNCHANGED loop_vars
    /\ UNCHANGED <<calls, call>>
    /\ UNCHANGED aux_vars

\* ExceptionVerdict giving up at once.
ExceptionVerdict_Return(att) == "return"

\* What `except Exception` does after attempt += 1.
ExceptionVerdict(att) ==
    IF att >= MAX_RETRIES THEN "return" ELSE "retry"

\* A request that raises any other exception.
ListException ==
    /\ pc = "fetch"
    /\ attempt < MAX_RETRIES
    /\ LET att == attempt + 1
           req == Append(trace, Request(next_page_token, "Exception", 0))
       IN  /\ attempt' = att
           /\ IF ExceptionVerdict(att) = "return"
              THEN /\ trace' = req
                   /\ stderr' = Append(stderr, Echo("list: unexpected error"))
                   /\ ret' = FailureResult(existing_ids)
                   /\ pc' = "fetched"
                   /\ UNCHANGED <<existing_ids, next_page_token>>
              ELSE /\ trace' = Append(req, Sleep(wait_time(att)))
                   /\ next_page_token' = TokenAtRetry(next_page_token)
                   /\ existing_ids' = IdsAtRetry(existing_ids)
                   /\ UNCHANGED <<stderr, ret>>
                   /\ pc' = "fetch"
    /\ UNCHANGED <<exit_code, playlist>>
    /\ UNCHANGED loop_vars
    /\ UNCHANGED <<calls, call>>
    /\ UNCHANGED aux_vars

(***************************************************************************)
(* api.py: add_video_to_playlist and verify_playlist_exists.               *)
(***************************************************************************)
\* What request.execute() does: it returns, raises HttpError with a status
\* and a content, or raises another exception.
Returned == [kind |-> "ok", status |-> 200, content |-> ""]
HttpError(status, content) ==
    [kind |-> "HttpError", status |-> status, content |-> content]
Raised == [kind |-> "Exception", status |-> 0, content |-> ""]

\* No gateway function has been called on its own.
NoCall == [fn |-> "none", video_id |-> None, outcome |-> Returned,
           value |-> FALSE]

\* What playlistItems().insert(...).execute() can do in the model. The
\* content of an HttpError matters to the code for a 404 only.
InsertOutcomes ==
    {Returned, Raised}
    \cup {HttpError(404, c) :
            c \in {"playlistNotFound", "videoNotFound", "notFound"}}
    \cup {HttpError(s, "error") : s \in HttpStatuses \ {404}}

\* add_video_to_playlist taking a 409 Conflict for a success.
add_video_to_playlist_Conflict(outcome) ==
    outcome.kind = "ok" \/ (outcome.kind = "HttpError" /\ outcome.status = 409)

\* add_video_to_playlist: the value it returns. `return True` follows
\* request.execute(); both except clauses end in `return False`.
add_video_to_playlist(outcome) == outcome.kind = "ok"

\* AddVideoTrace with the backoff of the fetch: a transient failure is
\* followed by a sleep and a second request.
AddVideoTrace_Retry(outcome) ==
    IF outcome.kind = "HttpError" /\ IsTransient(outcome.status)
    THEN <<Request(0, outcome.kind, outcome.status), Sleep(INITIAL_BACKOFF),
           Request(0, outcome.kind, outcome.status)>>
    ELSE <<Request(0, outcome.kind, outcome.status)>>

\* add_video_to_playlist: the remote requests and sleeps of one call. The
\* body has one request.execute(), no loop and no time.sleep.
AddVideoTrace(outcome) == <<Request(0, outcome.kind, outcome.status)>>

\* AddVideoEcho echoing a 404 whatever its payload.
AddVideoEcho_Any404(outcome) ==
    IF outcome.kind # "HttpError" THEN None
    ELSE IF outcome.status = 404 THEN "insert: playlist not found"
    ELSE IF outcome.status = 403 THEN "insert: permission denied"
    ELSE None

\* add_video_to_playlist: what it echoes to the operator, None for nothing.
AddVideoEcho(outcome) ==
    IF outcome.kind # "HttpError" THEN None
    ELSE IF outcome.status = 404
         THEN IF Contains(outcome.content, "playlistNotFound")
              THEN "insert: playlist not found"
              ELSE None
    ELSE IF outcome.status = 403 THEN "insert: permission denied"
    ELSE None

\* What playlists().list(...).execute() can do in the model: a response with
\* or without items, or a failure.
VerifyOutcomes ==
    {[kind |-> "ok", status |-> 200, content |-> c] : c \in {"items", ""}}
    \cup {HttpError(s, "error") : s \in HttpStatuses}
    \cup {Raised}

\* verify_playlist_exists without `if not response.get("items")`.
verify_playlist_exists_AnyResponse(outcome) == outcome.kind = "ok"

\* verify_playlist_exists: the value it returns.
verify_playlist_exists(outcome) ==
    outcome.kind = "ok" /\ outcome.content # ""

\* verify_playlist_exists: what it echoes to the operator.
VerifyEcho(outcome) ==
    IF outcome.kind = "ok"
    THEN IF outcome.content = "" THEN "verify: not found or no access"
         ELSE None
    ELSE IF outcome.kind = "HttpError"
    THEN IF outcome.status = 404 THEN "verify: not found"
         ELSE IF outcome.status = 403 THEN "verify: permission denied"
         ELSE "verify: API error"
    ELSE "verify: unexpected error"

\* add_video_to_playlist(youtube, playlist_id, video_id) called on its own.
InsertCall ==
    /\ pc = "test"
    /\ \E video_id \in VideoIds, outcome \in InsertOutcomes :
         /\ call' = [fn |-> "add_video_to_playlist", video_id |-> video_id,
                     outcome |-> outcome,
                     value |-> add_video_to_playlist(outcome)]
         /\ trace' = AddVideoTrace(outcome)
         /\ stderr' = EchoIf(stderr, AddVideoEcho(outcome))
         /\ playlist' = IF outcome.kind = "ok"
                        THEN RemoteInsert(playlist, video_id)
                        ELSE playlist
    /\ pc' = "returned"
    /\ UNCHANGED <<exit_code, existing_ids, next_page_token, attempt, ret,
                   calls>>
    /\ UNCHANGED aux_vars
    /\ UNCHANGED loop_vars

\* verify_playlist_exists(youtube, playlist_id) called on its own.
VerifyCall ==
    /\ pc = "test"
    /\ \E outcome \in VerifyOutcomes :
         /\ call' = [fn |-> "verify_playlist_exists", video_id |-> None,
                     outcome |-> outcome,
                     value |-> verify_playlist_exists(outcome)]
         /\ trace' = <<Request(0, outcome.kind, outcome.status)>>
         /\ stderr' = EchoIf(stderr, VerifyEcho(outcome))
    /\ pc' = "returned"
    /\ UNCHANGED <<exit_code, playlist, existing_ids, next_page_token,
                   attempt, ret, calls>>
    /\ UNCHANGED aux_vars
    /\ UNCHANGED loop_vars

(***************************************************************************)
(* cli.py: add.                                                            *)
(***************************************************************************)
\* The lines an input file is made of in the model, as iterating the file
\* yields them.
InputLines ==
    { " \t\n",
      "#https://youtu.be/dQw4w9WgXcQ\n",
      "  # a comment\n",
      "  not a url \n",
      "https://www.youtube.com/watch?v=dQw4w9WgXcQ&t=1\n",
      " youtu.be/a-b_c0d1e2f \n" }

\* extract_video_id on the text of each input line, computed once.
ExtractedIds ==
    [url \in {strip(line) : line \in InputLines} |-> extract_video_id(url)]

\* What get_authenticated_service() can do: return a service, return None,
\* or end the process itself (sys.exit(1)).
AuthOutcomes == {"service", "None", "SystemExit"}

\* AuthFails with `if not youtube: sys.exit(1)` lost.
AuthFails_Never(outcome) == FALSE

\* The run ends at get_authenticated_service(): it ended the process, or
\* `if not youtube` holds of what it returned.
AuthFails(outcome) == outcome # "service"

\* youtube = get_authenticated_service(), and the exit when it is None.
Authenticate ==
    /\ pc = "auth"
    /\ \E outcome \in AuthOutcomes :
         /\ calls' = Append(calls, Call("get_authenticated_service",
                                        outcome = "service"))
         /\ IF ~AuthFails(outcome)
            THEN /\ pc' = "verify"
                 /\ UNCHANGED <<exit_code, stderr>>
            ELSE /\ pc' = "exit"
                 /\ exit_code' = 1
                 /\ stderr' = Append(stderr, Echo(
                        IF outcome = "None" THEN "add: failed to authenticate"
                        ELSE "auth: exit"))
    /\ UNCHANGED <<playlist, call>>
    /\ UNCHANGED aux_vars
    /\ UNCHANGED fetch_vars
    /\ UNCHANGED loop_vars

\* if not verify_playlist_exists(youtube, playlist_id): sys.exit(1)
Verify ==
    /\ pc = "verify"
    /\ \E outcome \in VerifyOutcomes :
         /\ stderr' = EchoIf(stderr, VerifyEcho(outcome))
         /\ calls' = Append(calls, Call("verify_playlist_exists",
                                        verify_playlist_exists(outcome)))
         /\ IF verify_playlist_exists(outcome)
            THEN pc' = "fetch" /\ UNCHANGED exit_code
            ELSE pc' = "exit" /\ exit_code' = 1
    /\ UNCHANGED <<playlist, call>>
    /\ UNCHANGED aux_vars
    /\ UNCHANGED fetch_vars
    /\ UNCHANGED loop_vars

\* AfterFetch leaving the run when the fetch gave the empty set.
AfterFetch_StopOnEmpty(fetched) == IF fetched = {} THEN "exit" ELSE "loop"

\* Where add goes once get_existing_playlist_video_ids has returned: on to
\* the counters and the loop, whatever the set ("The script will continue").
AfterFetch(fetched) == "loop"

\* existing_video_ids = get_existing_playlist_video_ids(...) once the call
\* has returned, and the counters set to 0. The locals of the call and the
\* record of its requests go with it.
StartLoop ==
    /\ pc = "fetched"
    /\ pc' = AfterFetch(ret)
    /\ existing_video_ids' = ret
    /\ added_count' = 0
    /\ skipped_count' = 0
    /\ duplicate_count' = 0
    /\ error_count' = 0
    /\ line_num' = 0
    /\ existing_ids' = {}
    /\ next_page_token' = 0
    /\ attempt' = 0
    /\ trace' = <<>>
    /\ calls' = Append(calls, Call("get_existing_playlist_video_ids", TRUE))
    /\ UNCHANGED <<exit_code, playlist, ret, lines, inserts, stderr, summary,
                   call>>
    /\ UNCHANGED aux_vars

\* IsSkipped without the test for a comment.
IsSkipped_BlankOnly(url) == url = ""

\* if not url or url.startswith("#"): continue
IsSkipped(url) == url = "" \/ startswith(url, "#")

\* IsDuplicate with the membership test lost.
IsDuplicate_Never(video_id, existing) == FALSE

\* if video_id in existing_video_ids
IsDuplicate(video_id, existing) == video_id \in existing

\* ExistingAfter with the identifier remembered when the insert failed.
ExistingAfter_OnFailure(existing, video_id, ok) ==
    IF ok THEN existing ELSE existing \cup {video_id}

\* ExistingAfter with the set replaced by the identifier added.
ExistingAfter_Replace(existing, video_id, ok) ==
    IF ok THEN {video_id} ELSE existing

\* ExistingAfter without existing_video_ids.add(video_id).
ExistingAfter_Unchanged(existing, video_id, ok) == existing

\* ExistingAfter with existing_video_ids.add(video_id) moved out of the
\* `if add_video_to_playlist(...)`.
ExistingAfter_Always(existing, video_id, ok) == existing \cup {video_id}

\* existing_video_ids after add_video_to_playlist returned `ok` for video_id.
ExistingAfter(existing, video_id, ok) ==
    IF ok THEN existing \cup {video_id} ELSE existing

\* ErrorsAfter leaving a 409 Conflict uncounted.
ErrorsAfter_SkipConflict(errors, outcome) ==
    IF add_video_to_playlist(outcome) \/ outcome.status = 409
    THEN errors ELSE errors + 1

\* error_count after a call of add_video_to_playlist: the `else` of
\* `if add_video_to_playlist(...)` counts every False alike.
ErrorsAfter(errors, outcome) ==
    IF add_video_to_playlist(outcome) THEN errors ELSE errors + 1

\* One turn of `for line_num, line in enumerate(f, 1)`.
ProcessLine ==
    /\ pc = "loop"
    /\ Len(lines) < MaxLines
    /\ \E line \in InputLines :
         LET url == strip(line)
             video_id == ExtractedIds[url]
         IN  /\ lines' = Append(lines, line)
             /\ line_num' = line_num + 1
             /\ IF IsSkipped(url)
                THEN UNCHANGED <<playlist, existing_video_ids, added_count,
                                 skipped_count, duplicate_count, error_count,
                                 inserts, stderr, calls>>
                ELSE IF video_id = None
                THEN /\ stderr' = Append(stderr, Warning(line_num + 1, url))
                     /\ skipped_count' = skipped_count + 1
                     /\ UNCHANGED <<playlist, existing_video_ids, added_count,
                                    duplicate_count, error_count, inserts,
                                    calls>>
                ELSE IF IsDuplicate(video_id, existing_video_ids)
                THEN /\ duplicate_count' = duplicate_count + 1
                     /\ UNCHANGED <<playlist, existing_video_ids, added_count,
                                    skipped_count, error_count, inserts,
                                    stderr, calls>>
                ELSE \E outcome \in InsertOutcomes :
                       LET ok == add_video_to_playlist(outcome)
                       IN  /\ inserts' = Append(inserts,
                                  [video_id |-> video_id, ok |-> ok])
                           /\ calls' = Append(calls,
                                  Call("add_video_to_playlist", ok))
                           /\ playlist' = IF outcome.kind = "ok"
                                          THEN RemoteInsert(playlist, video_id)
                                          ELSE playlist
                           /\ stderr' = EchoIf(stderr, AddVideoEcho(outcome))
                           /\ added_count' =
                                  IF ok THEN added_count + 1 ELSE added_count
                           /\ error_count' = ErrorsAfter(error_count, outcome)
                           /\ existing_video_ids' =
                                  ExistingAfter(existing_video_ids, video_id, ok)
                           /\ UNCHANGED <<skipped_count, duplicate_count>>
    /\ UNCHANGED <<pc, exit_code, summary, call>>
    /\ UNCHANGED aux_vars
    /\ UNCHANGED fetch_vars

\* FinalExitCode telling a run whose every insert failed by its status.
FinalExitCode_FailOnErrors(added, errors) ==
    IF errors > 0 /\ added = 0 THEN 1 ELSE 0

\* The status of a run that reached the summary: add returns after the
\* hint, with no sys.exit, whatever the counters.
FinalExitCode(added, errors) == 0

\* The file is exhausted: the summary block, the hint, and the process ends
\* with status 0.
EndOfFile ==
    /\ pc = "loop"
    /\ pc' = "exit"
    /\ exit_code' = FinalExitCode(added_count, error_count)
    /\ summary' = <<added_count, skipped_count, duplicate_count, error_count>>
    /\ stderr' = IF error_count > 0 /\ added_count = 0
                 THEN Append(stderr, Echo("add: hint"))
                 ELSE stderr
    /\ UNCHANGED <<playlist, existing_video_ids, added_count, skipped_count,
                   duplicate_count, error_count, line_num, lines, inserts,
                   calls, call>>
    /\ UNCHANGED aux_vars
    /\ UNCHANGED fetch_vars

\* FileErrorExitCode taking a run that added a video for a success.
FileErrorExitCode_OkIfAdded(added) == IF added > 0 THEN 0 ELSE 1

\* The status of a run whose file raised: both except clauses end in
\* sys.exit(1), whatever was added before.
FileErrorExitCode(added) == 1

\* open(file) or the iteration raises: the except clauses echo the error
\* and the process ends with status 1, the summary unprinted.
FileError ==
    /\ pc = "loop"
    /\ pc' = "exit"
    /\ exit_code' = FileErrorExitCode(added_count)
    /\ stderr' = Append(stderr, Echo("add: error processing the file"))
    /\ UNCHANGED loop_vars
    /\ UNCHANGED <<playlist, calls, call>>
    /\ UNCHANGED aux_vars
    /\ UNCHANGED fetch_vars

(***************************************************************************)
(* utils.py: extract_video_id called on its own.                           *)
(***************************************************************************)
\* The parts a URL of a supported shape is made of.
Schemes == {"", "http://", "https://"}
WwwPrefixes == {"", "www."}
Shapes == {patterns[p] : p \in 1..Len(patterns)}

\* Query parameters that follow the identifier; the last one quotes
\* another video's watch URL.
QueryTails ==
    {"", "t=15", "feature=related", "u=youtube.com/watch?v=a-b_c0d1e2f"}

\* The separator between the identifier and the parameters that follow it:
\* the watch shape has opened the query already.
QuerySeparator(shape) == IF shape = "youtube.com/watch?v=" THEN "&" ELSE "?"

\* A URL of a supported shape carrying the identifier id.
ShapedUrl(scheme, www, shape, id, tail) ==
    scheme \o www \o shape \o id
    \o (IF tail = "" THEN "" ELSE QuerySeparator(shape) \o tail)

ShapedUrls ==
    {ShapedUrl(scheme, www, shape, id, tail) :
        scheme \in Schemes, www \in WwwPrefixes, shape \in Shapes,
        id \in VideoIds, tail \in QueryTails}

\* Strings that carry no identifier of their own: the empty string, bare
\* domains, a watch URL with an empty v, and URLs of other domains.
OtherUrls ==
    {"", "youtube.com", "https://www.youtube.com", "youtu.be/",
     "https://www.youtube.com/watch?v=",
     "https://www.youtube.com/watch?vid=dQw4w9WgXcQ",
     "https://www.google.com", "just a string",
     "https://example.com/dQw4w9WgXcQ",
     "https://example.com/watch?v=dQw4w9WgXcQ",
     "https://example.com/?u=youtube.com/watch?v=dQw4w9WgXcQ",
     "https://notyoutube.com/watch?v=dQw4w9WgXcQ"}

\* extract_video_id(url), called on its own.
ExtractCall ==
    /\ pc = "test"
    /\ ~extracted.returned
    /\ extracted' = [extracted EXCEPT
                        !.video_id = extract_video_id(extracted.url),
                        !.returned = TRUE]
    /\ pc' = "returned"
    /\ UNCHANGED <<exit_code, playlist, stderr, calls, call, auth, main>>
    /\ UNCHANGED fetch_vars
    /\ UNCHANGED loop_vars

(***************************************************************************)
(* auth.py: get_authenticated_service called on its own.                   *)
(***************************************************************************)
\* What the function has done so far joins auth.events: the token file
\* loaded, refreshed, removed or written, the OAuth flow, the service build.
Event(ev, outcome) == [ev |-> ev, outcome |-> outcome]

\* The rest of the state is untouched by get_authenticated_service.
AuthFrame ==
    /\ UNCHANGED <<playlist, calls, call, extracted, main>>
    /\ UNCHANGED fetch_vars
    /\ UNCHANGED loop_vars

\* AfterSecretsCheck without the sys.exit(1).
AfterSecretsCheck_GoOn(exists) == "token"

\* if not secrets_path.exists(): ... sys.exit(1)
AfterSecretsCheck(exists) == IF exists THEN "token" ELSE "exited"

AuthCheckSecrets ==
    /\ pc = "test"
    /\ auth.pc = "start"
    /\ LET exists == auth.secrets_file = "present"
           next == AfterSecretsCheck(exists)
       IN    /\ auth' = [auth EXCEPT
                           !.pc = next,
                           !.events = IF exists THEN @
                                      ELSE Append(@, Event("secrets", "missing"))]
             /\ stderr' = IF exists THEN stderr
                           ELSE Append(stderr, Echo("auth: secrets not found"))
             /\ IF next = "exited"
                THEN pc' = "exit" /\ exit_code' = 1
                ELSE UNCHANGED <<pc, exit_code>>
    /\ AuthFrame

\* What pickle.load gives: it raises, or the object loaded is falsy, valid,
\* expired with a refresh token, or neither valid nor refreshable.
LoadOutcomes == {"raises", "falsy", "valid", "expired", "invalid"}

\* LoadVerdict taking credentials that are not valid for usable ones.
LoadVerdict_UseInvalid(loaded) ==
    IF loaded \in {"valid", "invalid"} THEN "use"
    ELSE IF loaded = "expired" THEN "refresh"
    ELSE "none"

\* The branch taken on what was loaded: use it, refresh it, or go on with
\* credentials = None.
LoadVerdict(loaded) ==
    IF loaded = "valid" THEN "use"
    ELSE IF loaded = "expired" THEN "refresh"
    ELSE "none"

\* if token_path.exists(): the load and the test of what was loaded.
AuthLoadToken ==
    /\ pc = "test"
    /\ auth.pc = "token"
    /\ IF auth.token_file = "absent"
       THEN auth' = [auth EXCEPT !.pc = "decide"]
       ELSE \E loaded \in LoadOutcomes :
              LET verdict == LoadVerdict(loaded)
              IN  auth' = [auth EXCEPT
                             !.events = Append(@, Event("load", loaded)),
                             !.credentials = IF verdict = "use" THEN "loaded"
                                             ELSE "None",
                             !.pc = IF verdict = "refresh" THEN "refresh"
                                    ELSE "decide"]
    /\ UNCHANGED <<pc, exit_code, stderr>>
    /\ AuthFrame

\* loaded_creds.refresh(Request()): on failure the token file is removed
\* (the removal may fail with OSError) and credentials stays None.
AuthRefresh ==
    /\ pc = "test"
    /\ auth.pc = "refresh"
    /\ \/ auth' = [auth EXCEPT
                      !.events = Append(@, Event("refresh", "ok")),
                      !.credentials = "refreshed",
                      !.pc = "save_refreshed"]
       \/ \E unlinked \in {"ok", "OSError"} :
            auth' = [auth EXCEPT
                       !.events = @ \o <<Event("refresh", "raises"),
                                         Event("unlink", unlinked)>>,
                       !.token_file = IF unlinked = "ok" THEN "absent" ELSE @,
                       !.credentials = "None",
                       !.pc = "decide"]
       \/ \* `if token_path.exists()` finds the file gone already
          auth' = [auth EXCEPT
                     !.events = Append(@, Event("refresh", "raises")),
                     !.token_file = "absent",
                     !.credentials = "None",
                     !.pc = "decide"]
    /\ UNCHANGED <<pc, exit_code, stderr>>
    /\ AuthFrame

\* pickle.dump of the refreshed or of the new credentials; a failure is
\* echoed as a warning and the function goes on.
AuthSaveToken ==
    /\ pc = "test"
    /\ auth.pc \in {"save_refreshed", "save_new"}
    /\ \E written \in {"ok", "raises"} :
         /\ auth' = [auth EXCEPT
                       !.events = Append(@, Event("write_token", written)),
                       !.token_file = IF written = "ok" THEN "present" ELSE @,
                       !.pc = "build"]
         /\ stderr' = IF written = "ok" THEN stderr
                       ELSE Append(stderr, Echo("auth: could not save token"))
    /\ UNCHANGED <<pc, exit_code>>
    /\ AuthFrame

\* if credentials is None: the OAuth flow.
AuthFlow ==
    /\ pc = "test"
    /\ auth.pc = "decide"
    /\ auth.credentials = "None"
    /\ \E flow \in {"credentials", "None", "FileNotFoundError", "raises"} :
         /\ auth' = [auth EXCEPT
                       !.events = Append(@, Event("flow", flow)),
                       !.credentials = IF flow = "credentials" THEN "new"
                                       ELSE "None",
                       !.ret = IF flow = "credentials" THEN @ ELSE "None",
                       !.pc = CASE flow = "credentials" -> "save_new"
                                [] flow = "FileNotFoundError" -> "exited"
                                [] OTHER -> "returned"]
         /\ stderr' = CASE flow = "credentials" -> stderr
                         [] flow = "None" ->
                              Append(stderr, Echo("auth: cancelled or failed"))
                         [] flow = "FileNotFoundError" ->
                              Append(stderr, Echo("auth: secrets not found"))
                         [] OTHER ->
                              Append(stderr, Echo("auth: error during flow"))
         /\ IF flow = "credentials" THEN UNCHANGED <<pc, exit_code>>
            ELSE IF flow = "FileNotFoundError"
            THEN pc' = "exit" /\ exit_code' = 1
            ELSE pc' = "returned" /\ UNCHANGED exit_code
    /\ AuthFrame

\* build(API_SERVICE_NAME, API_VERSION, credentials=credentials)
AuthBuild ==
    /\ pc = "test"
    /\ \/ auth.pc = "build"
       \/ auth.pc = "decide" /\ auth.credentials # "None"
    /\ \E built \in {"service", "HttpError", "raises"} :
         /\ auth' = [auth EXCEPT
                       !.events = Append(@, Event("build", built)),
                       !.ret = IF built = "service" THEN "service" ELSE "None",
                       !.pc = "returned"]
         /\ stderr' = IF built = "service" THEN stderr
                       ELSE Append(stderr, Echo("auth: error building service"))
    /\ pc' = "returned"
    /\ UNCHANGED exit_code
    /\ AuthFrame

\* extract_video_id, get_authenticated_service and the add command of
\* __main__.py have not run.
NoExtract == [url |-> "", video_id |-> None, returned |-> FALSE]
NoAuth == [pc |-> "none"]
NoMain == [pc |-> "none"]

\* A call of get_existing_playlist_video_ids on its own, on any playlist of
\* up to MaxPages pages.
InitList ==
    /\ pc = "fetch"
    /\ exit_code = -1
    /\ playlist \in Playlists(MaxPages, Items)
    /\ existing_ids = {}
    /\ next_page_token = 0
    /\ attempt = 0
    /\ trace = <<>>
    /\ ret = {}
    /\ existing_video_ids = {}
    /\ added_count = 0
    /\ skipped_count = 0
    /\ duplicate_count = 0
    /\ error_count = 0
    /\ line_num = 0
    /\ lines = <<>>
    /\ inserts = <<>>
    /\ stderr = <<>>
    /\ summary = <<>>
    /\ calls = <<>>
    /\ call = NoCall
    /\ extracted = NoExtract
    /\ auth = NoAuth
    /\ main = NoMain

NextList ==
    \/ ListPage
    \/ ListHttpError
    \/ ListException

SpecList == InitList /\ [][NextList]_vars

\* The same call, running on: a request that can be made is made (the
\* function is sequential code, and request.execute() and time.sleep
\* return or raise).
SpecListFair == SpecList /\ WF_vars(NextList)

\* A run of the add command against a playlist of one page.
Init ==
    /\ pc = "auth"
    /\ exit_code = -1
    /\ playlist \in Playlists(1, VideoIds)
    /\ existing_ids = {}
    /\ next_page_token = 0
    /\ attempt = 0
    /\ trace = <<>>
    /\ ret = {}
    /\ existing_video_ids = {}
    /\ added_count = 0
    /\ skipped_count = 0
    /\ duplicate_count = 0
    /\ error_count = 0
    /\ line_num = 0
    /\ lines = <<>>
    /\ inserts = <<>>
    /\ stderr = <<>>
    /\ summary = <<>>
    /\ calls = <<>>
    /\ call = NoCall
    /\ extracted = NoExtract
    /\ auth = NoAuth
    /\ main = NoMain

Next ==
    \/ Authenticate
    \/ Verify
    \/ ListPage
    \/ ListHttpError
    \/ ListException
    \/ StartLoop
    \/ ProcessLine
    \/ EndOfFile
    \/ FileError

Spec == Init /\ [][Next]_vars

\* A call of add_video_to_playlist or of verify_playlist_exists on its
\* own, against any playlist of up to MaxPages pages.
InitGateway ==
    /\ pc = "test"
    /\ exit_code = -1
    /\ playlist \in Playlists(MaxPages, Items)
    /\ existing_ids = {}
    /\ next_page_token = 0
    /\ attempt = 0
    /\ trace = <<>>
    /\ ret = {}
    /\ existing_video_ids = {}
    /\ added_count = 0
    /\ skipped_count = 0
    /\ duplicate_count = 0
    /\ error_count = 0
    /\ line_num = 0
    /\ lines = <<>>
    /\ inserts = <<>>
    /\ stderr = <<>>
    /\ summary = <<>>
    /\ calls = <<>>
    /\ call = NoCall
    /\ extracted = NoExtract
    /\ auth = NoAuth
    /\ main = NoMain

NextGateway ==
    \/ InsertCall
    \/ VerifyCall

SpecGateway == InitGateway /\ [][NextGateway]_vars

\* A call of extract_video_id on its own, on a URL of a supported shape or
\* on one of the other strings.
InitExtract ==
    /\ pc = "test"
    /\ exit_code = -1
    /\ playlist = <<{}>>
    /\ existing_ids = {}
    /\ next_page_token = 0
    /\ attempt = 0
    /\ trace = <<>>
    /\ ret = {}
    /\ existing_video_ids = {}
    /\ added_count = 0
    /\ skipped_count = 0
    /\ duplicate_count = 0
    /\ error_count = 0
    /\ line_num = 0
    /\ lines = <<>>
    /\ inserts = <<>>
    /\ stderr = <<>>
    /\ summary = <<>>
    /\ calls = <<>>
    /\ call = NoCall
    /\ extracted \in {[url |-> u, video_id |-> None, returned |-> FALSE] :
                         u \in ShapedUrls \cup OtherUrls}
    /\ auth = NoAuth
    /\ main = NoMain

NextExtract == ExtractCall

SpecExtract == InitExtract /\ [][NextExtract]_vars

\* A call of get_authenticated_service on its own, with or without the
\* client secrets file and the token file.
InitAuth ==
    /\ pc = "test"
    /\ exit_code = -1
    /\ playlist = <<{}>>
    /\ existing_ids = {}
    /\ next_page_token = 0
    /\ attempt = 0
    /\ trace = <<>>
    /\ ret = {}
    /\ existing_video_ids = {}
    /\ added_count = 0
    /\ skipped_count = 0
    /\ duplicate_count = 0
    /\ error_count = 0
    /\ line_num = 0
    /\ lines = <<>>
    /\ inserts = <<>>
    /\ stderr = <<>>
    /\ summary = <<>>
    /\ calls = <<>>
    /\ call = NoCall
    /\ extracted = NoExtract
    /\ auth \in {[pc |-> "start", credentials |-> "None", secrets_file |-> f,
                   token_file |-> t, events |-> <<>>, ret |-> ""] :
                     f \in {"absent", "present"}, t \in {"absent", "present"}}
    /\ main = NoMain

NextAuth ==
    \/ AuthCheckSecrets
    \/ AuthLoadToken
    \/ AuthRefresh
    \/ AuthSaveToken
    \/ AuthFlow
    \/ AuthBuild

SpecAuth == InitAuth /\ [][NextAuth]_vars

(***************************************************************************)
(* __main__.py: the add command of the module's own entry point, run on    *)
(* the file, the fetched set and the insert results of a run of cli.py's   *)
(* add.                                                                    *)
(***************************************************************************)
\* The set after a call of add_video_to_playlist: the statement
\* existing_video_ids.add(video_id) is a comment, the set stays as fetched.
MainExistingAfter(existing, video_id, ok) == existing

\* The result of the next call of add_video_to_playlist by __main__.py's
\* add: the result cli.py's add got for its call of the same rank, any
\* result once cli.py's calls are used up.
MainInsertResults(made) ==
    IF made < Len(inserts) THEN {inserts[made + 1].ok} ELSE BOOLEAN

\* One pass of the for loop of __main__.py's add, on the next line of the
\* file cli.py's add has read to its end.
MainLine ==
    /\ pc = "exit"
    /\ exit_code = 0
    /\ main.pc = "loop"
    /\ main.line_num < Len(lines)
    /\ LET line == lines[main.line_num + 1]
           url == strip(line)
           video_id == ExtractedIds[url]
           read == [main EXCEPT !.line_num = @ + 1]
       IN  IF IsSkipped(url)
           THEN main' = read
           ELSE IF video_id = None
           THEN main' = [read EXCEPT !.skipped_count = @ + 1]
           ELSE IF video_id \in main.existing_video_ids
           THEN main' = [read EXCEPT !.duplicate_count = @ + 1]
           ELSE \E ok \in MainInsertResults(Len(main.inserts)) :
                  main' = [read EXCEPT
                      !.inserts = Append(@, [video_id |-> video_id,
                                             ok |-> ok]),
                      !.added_count = IF ok THEN @ + 1 ELSE @,
                      !.error_count = IF ok THEN @ ELSE @ + 1,
                      !.existing_video_ids =
                          MainExistingAfter(@, video_id, ok)]
    /\ UNCHANGED <<pc, exit_code, playlist, stderr, calls, call, extracted,
                   auth>>
    /\ UNCHANGED fetch_vars
    /\ UNCHANGED loop_vars

\* The file is exhausted: __main__.py's add prints its summary block and
\* returns.
MainEnd ==
    /\ pc = "exit"
    /\ exit_code = 0
    /\ main.pc = "loop"
    /\ main.line_num = Len(lines)
    /\ main' = [main EXCEPT
           !.pc = "exit",
           !.exit_code = 0,
           !.summary = <<main.added_count, main.skipped_count,
                         main.duplicate_count, main.error_count>>]
    /\ UNCHANGED <<pc, exit_code, playlist, stderr, calls, call, extracted,
                   auth>>
    /\ UNCHANGED fetch_vars
    /\ UNCHANGED loop_vars

\* Both commands about to read the file, after the same authentication,
\* verification and fetch: the fetched set is the playlist's or, the fetch
\* having failed, empty.
InitMain ==
    /\ pc = "loop"
    /\ exit_code = -1
    /\ playlist \in Playlists(1, VideoIds)
    /\ existing_ids = {}
    /\ next_page_token = 0
    /\ attempt = 0
    /\ trace = <<>>
    /\ ret \in {RemoteVideoIds(playlist), {}}
    /\ existing_video_ids = ret
    /\ added_count = 0
    /\ skipped_count = 0
    /\ duplicate_count = 0
    /\ error_count = 0
    /\ line_num = 0
    /\ lines = <<>>
    /\ inserts = <<>>
    /\ stderr = <<>>
    /\ summary = <<>>
    /\ calls = <<Call("get_authenticated_service", TRUE),
                 Call("verify_playlist_exists", TRUE),
                 Call("get_existing_playlist_video_ids", TRUE)>>
    /\ call = NoCall
    /\ extracted = NoExtract
    /\ auth = NoAuth
    /\ main = [pc |-> "loop", exit_code |-> -1,
               existing_video_ids |-> ret,
               added_count |-> 0, skipped_count |-> 0,
               duplicate_count |-> 0, error_count |-> 0, line_num |-> 0,
               inserts |-> <<>>, summary |-> <<>>]

NextMain ==
    \/ ProcessLine
    \/ EndOfFile
    \/ MainLine
    \/ MainEnd

SpecMain == InitMain /\ [][NextMain]_vars

(***************************************************************************)
(* Properties of the add command (Spec).                                   *)
(***************************************************************************)
\* A line of whitespace only.
IsBlankLine(line) == \A i \in 1..Len(line) : CharAt(line, i) \in Whitespace

\* A line whose first character after any whitespace is '#'.
IsCommentLine(line) ==
    \E i \in 1..Len(line) :
        /\ CharAt(line, i) = "#"
        /\ \A j \in 1..(i - 1) : CharAt(line, j) \in Whitespace

\* Which input lines are neither blank nor a comment, computed once.
IsContentLine ==
    [line \in InputLines |-> ~IsBlankLine(line) /\ ~IsCommentLine(line)]

\* The number of non-blank, non-comment lines among those read so far.
ContentLines == Cardinality({i \in 1..Len(lines) : IsContentLine[lines[i]]})

Counters == <<added_count, skipped_count, duplicate_count, error_count>>

\* C1: at every point of the batch loop and at the summary,
\* added + skipped-unparseable + skipped-duplicate + errored equals the
\* number of non-blank, non-comment lines read so far, the summary prints
\* those counters, and reading a blank line or a comment changes no counter.
C1_CountersSumToContentLines ==
    /\ [](/\ added_count + skipped_count + duplicate_count + error_count
               = ContentLines
          /\ summary # <<>> => summary = Counters)
    /\ [][(lines' # lines /\ ~IsContentLine[lines'[Len(lines')]])
            => Counters' = Counters]_vars

\* C1 witness: the summary of a file with a blank line, a comment and a
\* line that counts.
C1_Witness ==
    /\ summary # <<>>
    /\ Len(lines) = 3
    /\ \E i \in 1..3 : IsBlankLine(lines[i])
    /\ \E i \in 1..3 : IsCommentLine(lines[i])
    /\ ContentLines = 1

\* The existing-set as C2 defines it when the i-th call of insert is made:
\* the set listExisting returned and the identifiers inserted successfully
\* by the earlier calls.
ExistingSetBefore(i) ==
    ret \cup {inserts[j].video_id : j \in {k \in 1..(i - 1) : inserts[k].ok}}

\* The identifier of the line read last, None when it has none or is
\* skipped.
IdOfLine(line) ==
    IF IsContentLine[line] THEN ExtractedIds[strip(line)] ELSE None

\* C2: insert is never invoked for an identifier that is in the existing-set
\* at that moment, and a line carrying such an identifier increments
\* skipped-duplicate and nothing else.
C2_NoInsertOfExisting ==
    /\ [](\A i \in 1..Len(inserts) :
             inserts[i].video_id \notin ExistingSetBefore(i))
    /\ [][(/\ pc = "loop"
           /\ lines' # lines
           /\ IdOfLine(lines'[Len(lines')]) # None
           /\ IdOfLine(lines'[Len(lines')])
                \in ExistingSetBefore(Len(inserts) + 1))
            => /\ duplicate_count' = duplicate_count + 1
               /\ UNCHANGED <<added_count, skipped_count, error_count,
                              inserts, existing_video_ids, playlist,
                              stderr>>]_vars

\* C2 witness: a line was skipped as a duplicate of an identifier inserted
\* earlier in the run, which the fetch had not returned.
C2_Witness ==
    /\ pc = "loop"
    /\ duplicate_count = 1
    /\ Len(inserts) = 1
    /\ inserts[1].ok
    /\ Len(lines) = 2
    /\ IdOfLine(lines[2]) = inserts[1].video_id
    /\ inserts[1].video_id \notin ret

\* The identifiers of the parseable lines read so far, in file order.
ParsedIds ==
    LET ids == [i \in 1..Len(lines) |-> IdOfLine(lines[i])]
    IN  SelectSeq(ids, LAMBDA v : v # None)

\* The elements of seq that are not in seen, each at its first occurrence.
RECURSIVE FirstOccurrences(_, _)
FirstOccurrences(seq, seen) ==
    IF seq = <<>> THEN <<>>
    ELSE IF Head(seq) \in seen THEN FirstOccurrences(Tail(seq), seen)
    ELSE <<Head(seq)>> \o FirstOccurrences(Tail(seq), seen \cup {Head(seq)})

\* C3: while insert has always returned true, the calls of insert are the
\* distinct extracted identifiers not in the fetched set, each once at its
\* first occurrence in file order; added is their number, skipped-duplicate
\* the number of the other parseable lines, and errored is 0.
C3_AllInsertsSucceed ==
    (\A i \in 1..Len(inserts) : inserts[i].ok)
    => LET novel == FirstOccurrences(ParsedIds, ret)
       IN  /\ [i \in 1..Len(inserts) |-> inserts[i].video_id] = novel
           /\ added_count = Len(novel)
           /\ duplicate_count = Len(ParsedIds) - Len(novel)
           /\ error_count = 0
           /\ summary # <<>> => summary = Counters

\* C3 witness: the summary of a file of three parseable lines: one new, one
\* already in the playlist, one repeating the new one.
C3_Witness ==
    /\ summary = <<1, 0, 2, 0>>
    /\ Len(inserts) = 1
    /\ inserts[1].ok
    /\ Len(ParsedIds) = 3
    /\ \E i \in 1..3 : ParsedIds[i] \in ret
    /\ Cardinality({i \in 1..3 : ParsedIds[i] = inserts[1].video_id}) = 2

\* C4: every identifier in the in-memory existing-set, while the fetch
\* builds it, when it is returned and during the batch loop, is in the
\* remote playlist.
C4_ExistingSetIsInPlaylist ==
    /\ existing_ids \subseteq RemoteVideoIds(playlist)
    /\ ret \subseteq RemoteVideoIds(playlist)
    /\ existing_video_ids \subseteq RemoteVideoIds(playlist)

\* C4 witness: the existing-set holds an identifier the fetch returned and
\* one this run inserted, and an insert of this run has failed.
C4_Witness ==
    /\ pc = "loop"
    /\ ret # {}
    /\ existing_video_ids # ret
    /\ added_count = 1
    /\ error_count = 1

(***************************************************************************)
(* Properties of get_existing_playlist_video_ids (SpecList).               *)
(***************************************************************************)
Requests == SelectSeq(trace, LAMBDA e : e.ev = "request")
Sleeps == SelectSeq(trace, LAMBDA e : e.ev = "sleep")

Failed(e) == e.ev = "request" /\ e.result # "ok"
TransientFailure(e) ==
    /\ e.ev = "request"
    /\ e.result = "HttpError"
    /\ e.status \in {500, 502, 503, 504}

\* C5: when no request fails, listExisting issues one request per page, the
\* first without a cursor and each later one with the cursor the preceding
\* response carried, stops only at the page without a cursor, and returns
\* the union of the identifiers of all pages.
C5_PaginationWithoutFailure ==
    (\A i \in 1..Len(trace) : ~Failed(trace[i]))
    => /\ trace = Requests
       /\ \A i \in 1..Len(trace) :
            trace[i].token =
                IF i = 1 THEN 0 ELSE NextTokenOf(playlist, trace[i - 1].token)
       /\ \A i \in 1..(Len(trace) - 1) : trace[i + 1].token # 0
       /\ IF pc = "fetched"
          THEN /\ Len(trace) = Len(playlist)
               /\ ret = RemoteVideoIds(playlist)
          ELSE Len(trace) < Len(playlist)

\* C5 witness: two pages of different identifiers were fetched.
C5_Witness ==
    /\ pc = "fetched"
    /\ Len(playlist) = 2
    /\ Len(trace) = 2
    /\ \A i \in 1..2 : ~Failed(trace[i])
    /\ playlist[1] \ {None} # {}
    /\ playlist[2] \ {None} # {}
    /\ playlist[1] # playlist[2]

\* The first k requests failed with a transient status and every later one
\* succeeded.
FirstFailTransient(k) ==
    /\ Len(Requests) > k
    /\ \A i \in 1..Len(Requests) :
         IF i <= k THEN TransientFailure(Requests[i])
         ELSE ~Failed(Requests[i])

\* C6: if the first k requests (k = 1 or 2) fail with a transient status
\* and every later one succeeds, listExisting returns the identifiers of
\* the playlist and sleeps exactly k times, each time between the failed
\* request and the next one: 1 after the first failure, 2 after the second.
C6_RetryThenSuccess ==
    \A k \in 1..2 :
        (pc = "fetched" /\ FirstFailTransient(k))
        => /\ ret = RemoteVideoIds(playlist)
           /\ Len(Sleeps) = k
           /\ \A i \in 1..k :
                /\ Failed(trace[2 * i - 1])
                /\ trace[2 * i].ev = "sleep"
                /\ trace[2 * i].secs = (IF i = 1 THEN 1 ELSE 2)
                /\ trace[2 * i + 1].ev = "request"

\* C6 witness: two transient failures, then both pages of a playlist.
C6_Witness ==
    /\ pc = "fetched"
    /\ FirstFailTransient(2)
    /\ Len(playlist) = 2
    /\ ret # {}

AllRequests(P(_)) ==
    /\ Requests # <<>>
    /\ \A i \in 1..Len(Requests) : P(Requests[i])

NonHttpFailure(e) == e.ev = "request" /\ e.result = "Exception"

\* C7: when every request fails with a transient status, or every request
\* fails with a non-HTTP exception, listExisting issues exactly MAX_RETRIES
\* requests, sleeps after each but the last, and returns the empty set.
C7_RetriesExhausted ==
    (AllRequests(TransientFailure) \/ AllRequests(NonHttpFailure))
    => IF pc = "fetched"
       THEN /\ Len(Requests) = MAX_RETRIES
            /\ Len(Sleeps) = MAX_RETRIES - 1
            /\ trace[Len(trace)].ev = "request"
            /\ ret = {}
       ELSE /\ Len(Requests) < MAX_RETRIES
            /\ Len(Sleeps) = Len(Requests)

\* C7 witness: three transient failures ended the call.
C7_Witness ==
    /\ pc = "fetched"
    /\ AllRequests(TransientFailure)
    /\ Len(Requests) = 3

\* The request at place i of the trace ended the call with the empty set:
\* nothing follows it, neither a sleep nor a request.
EndsCall(i) ==
    /\ i = Len(trace)
    /\ pc = "fetched"
    /\ ret = {}

\* C8: a 404 of any request, on any attempt and any page, ends listExisting
\* at once with the empty set: no sleep and no request follows it.
C8_NotFoundIsTerminal ==
    \A i \in 1..Len(trace) :
        (trace[i].result = "HttpError" /\ trace[i].status = 404)
        => EndsCall(i)

\* C8 witness: a 404 on the second page, after a transient failure and
\* after the first page gave identifiers.
C8_Witness ==
    /\ pc = "fetched"
    /\ trace[Len(trace)].status = 404
    /\ trace[Len(trace)].token # 0
    /\ existing_ids # {}
    /\ attempt = 2

\* C9: an HTTP failure whose status is neither 404 nor transient ends
\* listExisting at once with the empty set, whatever budget remains.
C9_OtherHttpErrorIsTerminal ==
    \A i \in 1..Len(trace) :
        (/\ trace[i].result = "HttpError"
         /\ trace[i].status \notin {404, 500, 502, 503, 504})
        => EndsCall(i)

\* C9 witness: a 403 on the first attempt, two attempts left.
C9_Witness ==
    /\ pc = "fetched"
    /\ trace[Len(trace)].result = "HttpError"
    /\ trace[Len(trace)].status = 403
    /\ attempt = 1

\* C10 as stated: a non-HTTP exception of any request ends listExisting at
\* once with the empty set, no sleep and no request following it.
C10_ExceptionIsTerminal ==
    \A i \in 1..Len(trace) : NonHttpFailure(trace[i]) => EndsCall(i)

\* The number of failed requests among the first i events of the trace.
FailuresUpTo(i) == Cardinality({j \in 1..i : Failed(trace[j])})

\* C10 amended: a non-HTTP exception is retried like a transient failure.
\* If it is the MAX_RETRIES-th failed request of the call it ends the call
\* with the empty set and no sleep; otherwise listExisting sleeps
\* INITIAL_BACKOFF * 2^(n-1), n the number of failed requests so far, and
\* goes on to the next request.
C10_ExceptionIsRetried ==
    \A i \in 1..Len(trace) :
        NonHttpFailure(trace[i])
        => LET n == FailuresUpTo(i)
           IN  IF n >= MAX_RETRIES
               THEN EndsCall(i)
               ELSE /\ i < Len(trace)
                    /\ trace[i + 1].ev = "sleep"
                    /\ trace[i + 1].secs = INITIAL_BACKOFF * 2 ^ (n - 1)
                    /\ IF i + 1 = Len(trace)
                       THEN pc = "fetch"
                       ELSE trace[i + 2].ev = "request"

\* C10 witness: an exception on the first attempt, then the one page.
C10_Witness ==
    /\ pc = "fetched"
    /\ Len(trace) = 3
    /\ NonHttpFailure(trace[1])
    /\ ~Failed(trace[3])
    /\ ret # {}

\* A request failed and was retried after pages had been fetched: the event
\* at place i is a failed request with a cursor, a sleep and the next
\* request follow it.
RetriedAfterPages(i) ==
    /\ i + 2 <= Len(trace)
    /\ Failed(trace[i])
    /\ trace[i].token # 0
    /\ trace[i + 1].ev = "sleep"
    /\ trace[i + 2].ev = "request"

\* The pages asked for by the requests that succeeded, in order.
PagesFetched ==
    LET ok == SelectSeq(trace, LAMBDA e : e.ev = "request" /\ e.result = "ok")
    IN  [i \in 1..Len(ok) |-> IF ok[i].token = 0 THEN 1 ELSE ok[i].token]

\* C11 as stated: the request that follows a retryable failure after pages
\* were fetched carries no cursor (it asks for the first page again), and
\* the identifiers fetched before the failure are dropped.
C11_RetryRestartsFromFirstPage ==
    \A i \in 1..Len(trace) :
        RetriedAfterPages(i)
        => /\ trace[i + 2].token = 0
           /\ (i + 2 = Len(trace) /\ pc = "fetch" /\ Failed(trace[i + 2]))
                => existing_ids = {}

\* C11 amended: the request that follows a retryable failure carries the
\* cursor of the request that failed, so the retry resumes at the page that
\* failed; no page is fetched twice, and the identifiers of the pages
\* fetched before the failure stay in existing_ids and in a successful
\* result.
C11_RetryResumesAtFailedPage ==
    /\ \A i \in 1..Len(trace) :
         (i + 2 <= Len(trace) /\ Failed(trace[i]) /\ trace[i + 1].ev = "sleep")
         => /\ trace[i + 2].ev = "request"
            /\ trace[i + 2].token = trace[i].token
    /\ PagesFetched = [i \in 1..Len(PagesFetched) |-> i]
    /\ existing_ids =
         UNION {playlist[PagesFetched[i]] \ {None} : i \in 1..Len(PagesFetched)}
    /\ (pc = "fetched" /\ ~Failed(trace[Len(trace)]))
         => ret = RemoteVideoIds(playlist)

\* C11 witness: the second page failed with a transient status after the
\* first gave an identifier, and was fetched by the retry.
C11_Witness ==
    /\ pc = "fetched"
    /\ Len(trace) = 4
    /\ ~Failed(trace[1])
    /\ TransientFailure(trace[2])
    /\ trace[2].token # 0
    /\ ~Failed(trace[4])
    /\ playlist[1] \ {None} # {}
    /\ ret = RemoteVideoIds(playlist)

(***************************************************************************)
(* Properties of add_video_to_playlist and verify_playlist_exists          *)
(* (SpecGateway).                                                          *)
(***************************************************************************)
InsertReturned == pc = "returned" /\ call.fn = "add_video_to_playlist"
VerifyReturned == pc = "returned" /\ call.fn = "verify_playlist_exists"

\* The statuses add_video_to_playlist tells apart.
InsertNamedStatuses == {403, 404, 409, 500, 502, 503, 504}

\* C12: add_video_to_playlist returns True exactly when the remote insert
\* succeeded; for a 404, a 403, a 409, a 500/502/503/504, any other HTTP
\* status and a non-HTTP exception it returns False (it returns: no
\* exception leaves it).
C12_InsertTrueIffRemoteSuccess ==
    /\ pc \in {"test", "returned"}
    /\ InsertReturned
         => /\ call.value \in BOOLEAN
            /\ call.value <=> call.outcome = Returned
            /\ call.outcome.kind \in {"HttpError", "Exception"}
                 => call.value = FALSE
            /\ call.value
                 => call.video_id \in RemoteVideoIds(playlist)

\* C12 witness: a call that met an HTTP status outside those the function
\* names returned False.
C12_Witness ==
    /\ InsertReturned
    /\ call.outcome.kind = "HttpError"
    /\ call.outcome.status \notin InsertNamedStatuses
    /\ call.value = FALSE

\* C13: a call of add_video_to_playlist issues exactly one remote request,
\* whatever its outcome: a transient failure is not retried, and the call
\* never sleeps.
C13_InsertIsOneRequest ==
    InsertReturned
    => /\ Len(trace) = 1
       /\ trace[1].ev = "request"
       /\ trace[1].result = call.outcome.kind
       /\ trace[1].status = call.outcome.status
       /\ Sleeps = <<>>

\* C13 witness: a call that met a transient status returned after its one
\* request.
C13_Witness ==
    /\ InsertReturned
    /\ Len(trace) = 1
    /\ TransientFailure(trace[1])
    /\ call.value = FALSE

\* The outcome is a 404 whose payload names the playlist as not found.
PlaylistNotFound(outcome) ==
    /\ outcome.kind = "HttpError"
    /\ outcome.status = 404
    /\ Contains(outcome.content, "playlistNotFound")

\* The outcome is a 403.
PermissionDenied(outcome) ==
    outcome.kind = "HttpError" /\ outcome.status = 403

\* C14: add_video_to_playlist echoes an error to the operator exactly when
\* the failure is a 404 whose payload names the playlist as not found, or a
\* 403; one message then, and none for any other failure or for a success.
C14_InsertEchoesPlaylist404And403 ==
    InsertReturned
    => /\ stderr # <<>>
            <=> PlaylistNotFound(call.outcome) \/ PermissionDenied(call.outcome)
       /\ PlaylistNotFound(call.outcome)
            => stderr = <<Echo("insert: playlist not found")>>
       /\ PermissionDenied(call.outcome)
            => stderr = <<Echo("insert: permission denied")>>
       /\ call.value => stderr = <<>>

\* C14 witness: a 404 naming the playlist was echoed, and the call returned
\* False.
C14_Witness ==
    /\ InsertReturned
    /\ PlaylistNotFound(call.outcome)
    /\ Len(stderr) = 1
    /\ call.value = FALSE

\* C15: verify_playlist_exists returns True exactly when the lookup
\* succeeded with a non-empty result; otherwise (empty result, any HTTP
\* error, any other exception) it returns False, no exception leaves it,
\* and it echoes one error to the operator on every False and none on True.
C15_VerifyTrueIffNonEmptyResult ==
    /\ pc \in {"test", "returned"}
    /\ VerifyReturned
         => /\ call.value \in BOOLEAN
            /\ call.value
                 <=> call.outcome.kind = "ok" /\ call.outcome.content # ""
            /\ call.value => stderr = <<>>
            /\ ~call.value => Len(stderr) = 1
            /\ Len(trace) = 1

\* C15 witness: the lookup succeeded with an empty result; the call
\* returned False with an error echoed.
C15_Witness ==
    /\ VerifyReturned
    /\ call.outcome.kind = "ok"
    /\ call.outcome.content = ""
    /\ call.value = FALSE
    /\ stderr = <<Echo("verify: not found or no access")>>

(***************************************************************************)
(* Properties of the add command (Spec), continued.                        *)
(***************************************************************************)
\* The place of a gateway function in the order add calls them.
RankOf(fn) ==
    CASE fn = "get_authenticated_service" -> 1
      [] fn = "verify_playlist_exists" -> 2
      [] fn = "get_existing_playlist_video_ids" -> 3
      [] fn = "add_video_to_playlist" -> 4

\* The calls of fn among those add has made.
CallsOf(fn) == SelectSeq(calls, LAMBDA c : c.fn = fn)

\* C16: add calls get_authenticated_service, then verify_playlist_exists,
\* then get_existing_playlist_video_ids, then add_video_to_playlist line by
\* line. A failed authentication ends the run with status 1 and none of the
\* other three is called; a False from verify ends the run with status 1
\* and neither the fetch nor an insert is called; otherwise the fetch is
\* called exactly once, before the first insert.
C16_GatewayCallOrder ==
    /\ \A i, j \in 1..Len(calls) :
         i < j => /\ RankOf(calls[i].fn) <= RankOf(calls[j].fn)
                  /\ RankOf(calls[i].fn) = RankOf(calls[j].fn)
                       => calls[i].fn = "add_video_to_playlist"
    /\ \A i \in 1..Len(calls) : i <= 3 => RankOf(calls[i].fn) = i
    /\ pc = "auth" <=> calls = <<>>
    /\ (Len(calls) >= 1 /\ ~calls[1].value)
         => /\ pc = "exit" /\ exit_code = 1
            /\ Len(calls) = 1
            /\ trace = <<>> /\ inserts = <<>>
    /\ (Len(calls) >= 2 /\ ~calls[2].value)
         => /\ pc = "exit" /\ exit_code = 1
            /\ Len(calls) = 2
            /\ trace = <<>> /\ inserts = <<>>
    /\ pc \in {"fetch", "fetched"}
         => Len(calls) = 2 /\ calls[2].value /\ inserts = <<>>
    /\ (Len(calls) >= 2 /\ calls[2].value /\ pc \in {"loop", "exit"})
         => /\ Len(CallsOf("get_existing_playlist_video_ids")) = 1
            /\ calls[3].fn = "get_existing_playlist_video_ids"
    /\ Len(CallsOf("add_video_to_playlist")) = Len(inserts)

\* C16 witness: a run that authenticated, verified, fetched and then
\* inserted twice has ended.
C16_Witness ==
    /\ pc = "exit"
    /\ Len(calls) = 5
    /\ calls[1].value /\ calls[2].value
    /\ calls[3].fn = "get_existing_playlist_video_ids"
    /\ calls[4].fn = "add_video_to_playlist"
    /\ calls[5].fn = "add_video_to_playlist"

\* The file could not be opened or read to its end.
FileFailed ==
    \E i \in 1..Len(stderr) : stderr[i].msg = "add: error processing the file"

\* The run went past authentication and verification and has ended.
EndedAfterVerify ==
    pc = "exit" /\ Len(calls) >= 2 /\ calls[1].value /\ calls[2].value

\* C17: a run that authenticated, verified and read the file to its end
\* without an exception prints the four counters and ends with status 0,
\* however many inserts returned False, all of them included.
C17_SummaryAndExitZero ==
    /\ (EndedAfterVerify /\ ~FileFailed)
         => /\ exit_code = 0
            /\ summary = Counters
            /\ error_count = Len(SelectSeq(inserts, LAMBDA c : ~c.ok))
    /\ summary # <<>> => pc = "exit" /\ exit_code = 0

\* C17 witness: a run whose inserts, two of them, all returned False has
\* printed its summary and ended with status 0.
C17_Witness ==
    /\ EndedAfterVerify
    /\ ~FileFailed
    /\ Len(inserts) = 2
    /\ \A i \in 1..Len(inserts) : ~inserts[i].ok
    /\ summary = <<0, 0, 0, 2>>
    /\ exit_code = 0

\* get_existing_playlist_video_ids gave up: it echoed one of its errors.
FetchFailed ==
    \E i \in 1..Len(stderr) :
        stderr[i].msg \in {"list: playlist inaccessible",
                           "list: API server errors", "list: API error",
                           "list: unexpected error"}

\* The identifiers whose insert returned True in this run.
InsertedIds ==
    {inserts[i].video_id : i \in {j \in 1..Len(inserts) : inserts[j].ok}}

\* C18: when get_existing_playlist_video_ids returns the empty set because
\* the fetch failed, the run does not stop: the loop starts with an empty
\* existing_video_ids, which then holds the identifiers inserted in this
\* run and no other, and the run ends with status 0 (the file being read to
\* its end).
C18_FetchFailureDoesNotAbort ==
    FetchFailed
    => /\ pc \in {"fetched", "loop", "exit"}
       /\ ret = {}
       /\ pc = "fetched" => (exit_code = -1 /\ ENABLED StartLoop)
       /\ pc = "loop" => (exit_code = -1 /\ ENABLED EndOfFile)
       /\ pc \in {"loop", "exit"} => existing_video_ids = InsertedIds
       /\ (pc = "exit" /\ ~FileFailed)
            => exit_code = 0 /\ summary = Counters

\* C18 witness: the fetch failed; a video the playlist holds was sent to
\* insert, a second one was inserted and then met again as a duplicate,
\* and the run ended with status 0.
C18_Witness ==
    /\ FetchFailed
    /\ pc = "exit"
    /\ exit_code = 0
    /\ Len(inserts) = 2
    /\ ~inserts[1].ok
    /\ inserts[1].video_id \in RemoteVideoIds(playlist)
    /\ inserts[2].ok
    /\ summary = <<1, 0, 1, 1>>

\* The identifier of each input line, computed once.
LineIds == [line \in InputLines |-> IdOfLine(line)]

\* What a run of the loop over `ls` comes to, told from the fetched set and
\* from the truth values `oks` of its inserts alone: the four counters and
\* the identifiers sent to insert, in order.
RECURSIVE Replay(_, _, _, _)
Replay(ls, existing, oks, acc) ==
    IF ls = <<>> THEN acc
    ELSE LET video_id == LineIds[Head(ls)]
             rest == Tail(ls)
         IN  IF ~IsContentLine[Head(ls)]
             THEN Replay(rest, existing, oks, acc)
             ELSE IF video_id = None
             THEN Replay(rest, existing, oks,
                         [acc EXCEPT !.skipped = @ + 1])
             ELSE IF video_id \in existing
             THEN Replay(rest, existing, oks,
                         [acc EXCEPT !.duplicate = @ + 1])
             ELSE IF Head(oks)
             THEN Replay(rest, existing \cup {video_id}, Tail(oks),
                         [acc EXCEPT !.added = @ + 1,
                                     !.ids = Append(@, video_id)])
             ELSE Replay(rest, existing, Tail(oks),
                         [acc EXCEPT !.errors = @ + 1,
                                     !.ids = Append(@, video_id)])

\* The insert echoes of the run: one for each failure of a class that
\* add_video_to_playlist echoes.
InsertEchoes ==
    SelectSeq(stderr, LAMBDA e : e.msg \in {"insert: playlist not found",
                                            "insert: permission denied"})

\* C19: the counters and the sequence of identifiers sent to insert are a
\* function of the file, the fetched set and the truth values of the
\* inserts: two runs that agree on these agree on the counters and on the
\* inserts, whichever class of failure stands behind each False.
C19_FailureClassIsIrrelevant ==
    pc \in {"loop", "exit"}
    => LET oks == [i \in 1..Len(inserts) |-> inserts[i].ok]
           run == Replay(lines, ret, oks,
                         [added |-> 0, skipped |-> 0, duplicate |-> 0,
                          errors |-> 0, ids |-> <<>>])
       IN  /\ Counters =
                <<run.added, run.skipped, run.duplicate, run.errors>>
           /\ [i \in 1..Len(inserts) |-> inserts[i].video_id] = run.ids
           /\ summary # <<>> => summary = Counters

\* C19 witness: a run with two failed inserts of different classes (one of
\* them echoed, the other not) has printed its summary.
C19_Witness ==
    /\ pc = "exit"
    /\ summary = Counters
    /\ error_count = 2
    /\ Len(inserts) = 2
    /\ Len(InsertEchoes) = 1

\* The line read by this step, when the step reads one.
LineRead == lines'[Len(lines')]

\* This step of the loop reads a line that is neither blank nor a comment
\* and from which no identifier is extracted.
ReadsUnparseable ==
    /\ pc = "loop"
    /\ Len(lines') = Len(lines) + 1
    /\ IsContentLine[LineRead]
    /\ IdOfLine(LineRead) = None

\* The text of a line as the file holds it, without its line terminator.
RawText(line) == SubSeq(line, 1, Len(line) - 1)

\* What a step that reads an unparseable line does, but for the text of
\* its warning.
UnparseableStep(text) ==
    /\ skipped_count' = skipped_count + 1
    /\ UNCHANGED <<added_count, duplicate_count, error_count, inserts,
                   calls, existing_video_ids, playlist>>
    /\ stderr' = Append(stderr, [msg |-> "warning", line |-> Len(lines'),
                                 text |-> text])

\* C20 as stated: a line that is neither blank nor a comment and has no
\* identifier adds one to skipped_count, reaches neither the duplicate
\* check nor insert, and is echoed in a warning that carries its 1-based
\* number in the file and its raw text.
C20_WarningCarriesRawLine ==
    [][ReadsUnparseable => UnparseableStep(RawText(LineRead))]_vars

\* C20 amended: the same, the warning carrying the text of the line with
\* its leading and trailing whitespace stripped (url = line.strip()).
C20_WarningCarriesStrippedLine ==
    [][ReadsUnparseable => UnparseableStep(strip(LineRead))]_vars

\* C20 witness: the second line of the file, after a blank line or a
\* comment, had no identifier; its warning says line 2 and gives its
\* text without the whitespace around it.
C20_Witness ==
    /\ pc = "loop"
    /\ Len(lines) = 2
    /\ ~IsContentLine[lines[1]]
    /\ lines[2] = "  not a url \n"
    /\ skipped_count = 1
    /\ inserts = <<>>
    /\ stderr # <<>>
    /\ stderr[Len(stderr)] =
         [msg |-> "warning", line |-> 2, text |-> "not a url"]

\* C21: when opening or iterating the input file raises, at whatever line,
\* the add command ends with status 1 and the summary block is never
\* printed; the inserts made for the earlier lines stay in the playlist.
C21_FileErrorExitsWithoutSummary ==
    FileFailed
    => /\ pc = "exit"
       /\ exit_code = 1
       /\ summary = <<>>
       /\ InsertedIds \subseteq RemoteVideoIds(playlist)
       /\ added_count = Cardinality(InsertedIds)

\* C21 witness: the file raised after two lines, the first of which was
\* inserted.
C21_Witness ==
    /\ FileFailed
    /\ Len(lines) = 2
    /\ added_count = 1
    /\ Len(inserts) >= 1
    /\ inserts[1].ok
    /\ inserts[1].video_id \in RemoteVideoIds(playlist)
    /\ exit_code = 1

(***************************************************************************)
(* Properties of extract_video_id (SpecExtract).                           *)
(***************************************************************************)
\* The URLs of the supported shapes, each with the identifier it carries.
CarriedIds ==
    {<<ShapedUrl(scheme, www, shape, id, tail), id>> :
        scheme \in Schemes, www \in WwwPrefixes, shape \in Shapes,
        id \in VideoIds, tail \in QueryTails}

\* C22: for a URL of one of the six shapes that carries an 11-character
\* identifier, extract_video_id returns that identifier, with or without
\* the scheme and www., and whatever query parameters follow it.
C22_ExtractReturnsCarriedId ==
    extracted.returned
    => \A c \in CarriedIds :
         c[1] = extracted.url => extracted.video_id = c[2]

\* The domain of each of the strings that name a domain other than
\* youtube.com, www.youtube.com and youtu.be.
UnrelatedDomainUrls ==
    {"https://www.google.com", "https://example.com/dQw4w9WgXcQ",
     "https://example.com/watch?v=dQw4w9WgXcQ",
     "https://example.com/?u=youtube.com/watch?v=dQw4w9WgXcQ",
     "https://notyoutube.com/watch?v=dQw4w9WgXcQ"}

\* C23: extract_video_id returns None for the empty string, for a bare
\* domain, for a watch URL whose v is empty, and for every URL of an
\* unrelated domain, whatever its path and query hold.
C23_ExtractFindsNothing ==
    (/\ extracted.returned
     /\ extracted.url \in {"", "youtube.com", "https://www.youtube.com",
                           "https://www.youtube.com/watch?v="}
                          \cup UnrelatedDomainUrls)
    => extracted.video_id = None

(***************************************************************************)
(* Properties of get_authenticated_service (SpecAuth).                     *)
(***************************************************************************)
\* The events of auth.events that are ev.
EventsOf(ev) == SelectSeq(auth.events, LAMBDA e : e.ev = ev)

\* C24: when the client secrets file is missing, get_authenticated_service
\* ends the process with status 1 before it loads or refreshes a token,
\* starts the OAuth flow or builds the service.
C24_MissingSecretsExitsFirst ==
    (auth.secrets_file = "absent" /\ auth.pc # "start")
    => /\ auth.pc = "exited"
       /\ pc = "exit"
       /\ exit_code = 1
       /\ auth.events = <<Event("secrets", "missing")>>
       /\ auth.ret = ""

\* C24 witness: the secrets file was missing though a token file was
\* there, and the process has ended.
C24_Witness ==
    /\ auth.secrets_file = "absent"
    /\ auth.token_file = "present"
    /\ auth.pc = "exited"
    /\ exit_code = 1

\* The token cache has yielded no usable credentials: there is no token
\* file, the load failed, what was loaded is neither valid nor refreshable,
\* or the refresh failed.
NoUsableCredentials ==
    \/ EventsOf("load") = <<>>
    \/ \E i \in 1..Len(auth.events) :
         \/ auth.events[i] \in {Event("load", "raises"),
                                Event("load", "falsy"),
                                Event("load", "invalid")}
         \/ auth.events[i] = Event("refresh", "raises")

\* C25: get_authenticated_service starts the OAuth flow exactly when the
\* token cache yields no usable credentials; a failed refresh has the token
\* file removed first. With valid cached credentials it neither starts the
\* flow nor writes the token file; with refreshed credentials it writes
\* the token file once and does not start the flow.
C25_FlowIffNoUsableCredentials ==
    auth.pc \in {"save_new", "build", "returned", "exited"}
         /\ auth.secrets_file = "present"
    => /\ EventsOf("flow") # <<>> <=> NoUsableCredentials
       /\ Len(EventsOf("flow")) <= 1
       /\ \A i \in 1..Len(auth.events) :
            auth.events[i] = Event("refresh", "raises")
            => /\ i < Len(auth.events)
               /\ \/ auth.events[i + 1] = Event("unlink", "ok")
                  \/ auth.events[i + 1] = Event("unlink", "OSError")
                  \/ auth.events[i + 1].ev = "flow"
               /\ auth.events[i + 1] = Event("unlink", "ok")
                    => auth.events[i + 2].ev = "flow"
       /\ Event("load", "valid") \in {auth.events[i] : i \in 1..Len(auth.events)}
            => EventsOf("flow") = <<>> /\ EventsOf("write_token") = <<>>
       /\ (Event("refresh", "ok") \in
              {auth.events[i] : i \in 1..Len(auth.events)}
           /\ auth.pc \in {"build", "returned"})
            => EventsOf("flow") = <<>> /\ Len(EventsOf("write_token")) = 1

\* C25 witness: the refresh of an expired token failed, the token file was
\* removed, the flow ran and its credentials were written.
C25_Witness ==
    /\ auth.pc = "returned"
    /\ auth.ret = "service"
    /\ auth.events = <<Event("load", "expired"), Event("refresh", "raises"),
                       Event("unlink", "ok"), Event("flow", "credentials"),
                       Event("write_token", "ok"), Event("build", "service")>>

(***************************************************************************)
(* Properties of get_existing_playlist_video_ids, continued (SpecList,     *)
(* SpecListFair).                                                          *)
(***************************************************************************)
\* C26: whatever the playlist and whichever requests fail, the call of
\* get_existing_playlist_video_ids ends, and after at most MAX_RETRIES
\* failed requests in all: attempt counts the failures of the whole call,
\* a fetched page does not reset it, and the third failure ends the call
\* with the empty set.
C26_TerminatesWithinThreeFailures ==
    /\ [](/\ attempt = FailuresUpTo(Len(trace))
          /\ attempt <= MAX_RETRIES
          /\ Len(Requests) <= Len(playlist) + MAX_RETRIES - 1
          /\ attempt = MAX_RETRIES
               => /\ pc = "fetched"
                  /\ Failed(trace[Len(trace)])
                  /\ ret = {})
    /\ <>(pc = "fetched")

\* C26 witness: three failures on two pages, with a fetched page between
\* them, ended the call.
C26_Witness ==
    /\ pc = "fetched"
    /\ attempt = MAX_RETRIES
    /\ Failed(trace[1])
    /\ \E i \in 1..Len(trace) :
         trace[i].ev = "request" /\ ~Failed(trace[i])
    /\ trace[Len(trace)].token # 0
    /\ ret = {}

\* C27: when a failure ends get_existing_playlist_video_ids (a 404, a
\* third transient failure, another HTTP failure, a third exception) the
\* call returns the empty set, never the identifiers of the pages fetched
\* before, and it has echoed an error to the operator; a non-empty set is
\* returned only after a request returned a page with no nextPageToken.
C27_FailureReturnsEmptySet ==
    /\ pc = "fetch" => stderr = <<>>
    /\ pc = "fetched"
         => LET last == trace[Len(trace)]
            IN  /\ last.ev = "request"
                /\ Failed(last)
                     => /\ ret = {}
                        /\ Len(stderr) = 1
                        /\ stderr[1].msg \in
                             {"list: playlist inaccessible",
                              "list: API server errors", "list: API error",
                              "list: unexpected error"}
                /\ ~Failed(last)
                     => /\ NextTokenOf(playlist, last.token) = 0
                        /\ ret = existing_ids
                        /\ stderr = <<>>
                /\ ret # {} => ~Failed(last)

\* C27 witness: a failure ended the call after a page had given
\* identifiers; the call returned the empty set.
C27_Witness ==
    /\ pc = "fetched"
    /\ Failed(trace[Len(trace)])
    /\ existing_ids # {}
    /\ ret = {}
    /\ Len(stderr) = 1

(***************************************************************************)
(* Properties of the add command (Spec), continued.                        *)
(***************************************************************************)
\* C28: throughout the batch loop existing_video_ids never loses an
\* identifier, its size is the size of the set the fetch returned plus
\* added_count, and the calls of add_video_to_playlist made so far number
\* added_count + error_count.
C28_ExistingSetGrowsWithAdded ==
    /\ [](pc \in {"loop", "exit"} /\ Len(calls) >= 3
            => /\ Cardinality(existing_video_ids)
                    = Cardinality(ret) + added_count
               /\ ret \subseteq existing_video_ids
               /\ Len(inserts) = added_count + error_count
               /\ Len(CallsOf("add_video_to_playlist"))
                    = added_count + error_count)
    /\ [][existing_video_ids \subseteq existing_video_ids']_vars

\* C28 witness: the fetch gave one identifier; an insert of the other
\* failed and a second one succeeded.
C28_Witness ==
    /\ pc = "loop"
    /\ Cardinality(ret) = 1
    /\ Len(inserts) = 2
    /\ ~inserts[1].ok
    /\ inserts[2].ok
    /\ Cardinality(existing_video_ids) = 2
    /\ added_count = 1 /\ error_count = 1

\* This step calls add_video_to_playlist and the call returns False.
InsertReturnsFalse ==
    /\ Len(inserts') = Len(inserts) + 1
    /\ ~inserts'[Len(inserts')].ok

\* This step reads a line whose identifier an earlier call of
\* add_video_to_playlist was refused for, and which neither the fetch nor
\* a later insert put into the set.
ReadsRefusedIdAgain ==
    /\ pc = "loop"
    /\ Len(lines') = Len(lines) + 1
    /\ LineIds[LineRead] # None
    /\ LineIds[LineRead] \notin ret \cup InsertedIds
    /\ \E i \in 1..Len(inserts) :
         inserts[i].video_id = LineIds[LineRead] /\ ~inserts[i].ok

\* C29: when add_video_to_playlist returns False the loop leaves
\* existing_video_ids, added_count, skipped_count and duplicate_count as
\* they were and adds one to error_count; a later line with the same
\* identifier is therefore sent to add_video_to_playlist again and not
\* counted as a duplicate.
C29_FalseInsertChangesOnlyErrors ==
    [][/\ InsertReturnsFalse
          => /\ UNCHANGED <<existing_video_ids, added_count, skipped_count,
                            duplicate_count>>
             /\ error_count' = error_count + 1
       /\ ReadsRefusedIdAgain
          => /\ Len(inserts') = Len(inserts) + 1
             /\ inserts'[Len(inserts')].video_id = LineIds[LineRead]
             /\ UNCHANGED duplicate_count]_vars

\* C29 witness: an identifier was refused and then, on a later line, sent
\* to add_video_to_playlist again.
C29_Witness ==
    /\ pc = "loop"
    /\ Len(inserts) = 2
    /\ ~inserts[1].ok
    /\ inserts[2].video_id = inserts[1].video_id
    /\ duplicate_count = 0
    /\ error_count >= 1

(***************************************************************************)
(* Properties of the add command of __main__.py (SpecMain).                *)
(***************************************************************************)
\* C30: run on the same file, the same fetched set and the same insert
\* results, the add command of __main__.py calls add_video_to_playlist for
\* the same identifiers in the same order as the add command of cli.py and
\* prints the same four counters.
C30_MainAddMatchesCliAdd ==
    main.pc = "exit"
        => /\ main.inserts = inserts
           /\ main.summary = summary

====
